---- MODULE Spec2Model ----
(***************************************************************************)
(* The decode/execute pipeline of ps3dprintd (src/src/gcode/mod.rs): the   *)
(* print-job State, the DecoderThread, decoder_loop, executor_loop and the *)
(* bounded channel start() creates between the two loops.                  *)
(*                                                                         *)
(* An Action is <<j, k>>: the k-th Action decoded from the j-th job that   *)
(* was installed with State::print.                                        *)
(***************************************************************************)
EXTENDS Integers, Sequences, FiniteSets, TLC

\* channel::bounded(16), the Decoder->Executor channel.
ChanCap == 16

\* Bounds of the model.
MaxCmds == 3      \* control messages the callers send in one run
MaxCtl == 2       \* control messages in flight on decoder_recv
ShortJob == 2     \* length of the short job

LongJob == ChanCap + 2    \* a job that fills the channel and still has Actions pending

\* Option<T>: None, Some(x).
None == << >>
Some(x) == << x >>

\* The files a caller can submit: n instructions that decode to one Action
\* each, followed (bad) by one instruction the Decoder rejects.
Files ==
    { [n |-> k, bad |-> FALSE] : k \in {0, ShortJob, LongJob} }
        \cup { [n |-> 1, bad |-> TRUE] }

\* DecoderComms, wrapped in ControlComms::Msg, and ControlComms::Exit.
DecoderComms ==
    { [t |-> "Print", file |-> f] : f \in Files }
        \cup { [t |-> "Stop"], [t |-> "Play"], [t |-> "Pause"] }
Exit == [t |-> "Exit"]
ControlComms == DecoderComms \cup { Exit }

VARIABLES
    data,        \* the DecoderThread of decoder_loop: [decoder, state]
    dpc,         \* decoder_loop: "run", "exited" (break), "panicked"
    epc,         \* executor_loop: "recv", "exec", "panicked"
    ctl,         \* decoder_recv: control messages in flight
    chan,        \* executor_send/executor_recv: Actions in flight
    motor,       \* Actions forwarded to the Motor Subsystem, not yet completed
    received,    \* history: every Action executor_loop has received
    jobs,        \* history: the length of every job installed by State::print
    failed,      \* history: the Action the Motor Subsystem failed on, if any
    ndeq,        \* history: number of Actions DecoderThread::next has popped
    pauseHead,   \* history: head of the queue when the last Pause took effect
    resumedAt,   \* history: pauseHead when the last Play left Paused
    ncmds        \* number of control messages sent so far

vars == << data, dpc, epc, ctl, chan, motor, received, jobs, failed, ndeq,
           pauseHead, resumedAt, ncmds >>

----------------------------------------------------------------------------
(* State *)

State_new == [state |-> "Stopped", printing_state |-> None]

\* Outcome of a call that may panic.
Ok(s) == [panic |-> FALSE, s |-> s]
Panic(s) == [panic |-> TRUE, s |-> s]

\* A slip: the queue is installed with the wrong phase.
print_paused(self, actions) ==
    IF self.state = "Stopped"
    THEN Ok([state |-> "Paused", printing_state |-> Some(actions)])
    ELSE Panic(self)

print(self, actions) ==
    IF self.state = "Stopped"
    THEN Ok([state |-> "Printing", printing_state |-> Some(actions)])
    ELSE Panic(self)

\* A slip: the phase is reset and the queue is left in place.
stop_keeps_queue(self) == [self EXCEPT !.state = "Stopped"]

stop(self) == [state |-> "Stopped", printing_state |-> None]

play(self) ==
    CASE self.state = "Printing" -> Ok(self)
      [] self.state = "Paused" -> Ok([self EXCEPT !.state = "Printing"])
      [] self.state = "Stopped" -> Panic(self)

\* A slip: pause toggles between Printing and Paused.
pause_toggles(self) ==
    CASE self.state = "Printing" -> Ok([self EXCEPT !.state = "Paused"])
      [] self.state = "Paused" -> Ok([self EXCEPT !.state = "Printing"])
      [] self.state = "Stopped" -> Panic(self)

pause(self) ==
    CASE self.state = "Printing" -> Ok([self EXCEPT !.state = "Paused"])
      [] self.state = "Paused" -> Ok(self)
      [] self.state = "Stopped" -> Panic(self)

\* A slip: every phase with a queue counts as printing.
is_printing_not_stopped(self) == self.state # "Stopped"

is_printing(self) == self.state = "Printing"

\* printing_state_mut panics when Stopped, and its unwrap when there is no
\* printing state.
printing_state_mut_panics(self) ==
    self.state = "Stopped" \/ self.printing_state = None

----------------------------------------------------------------------------
(* Decoder (decoder.rs): cumulative state, the number of instructions      *)
(* decoded since construction or the last reset.                           *)

Decoder_new == 0
Decoder_reset(d) == 0

\* The Actions of job j decoded from n instructions.
JobActions(j, n) == [k \in 1..n |-> << j, k >>]

\* Decoding file f as job j with engine state d: the loop of handle_msg.
\* The rejected instruction of a bad file comes after the good ones.
DecodeFile(d, f, j) ==
    [ok |-> ~f.bad, actions |-> JobActions(j, f.n), decoder |-> d + f.n]

----------------------------------------------------------------------------
(* DecoderThread *)

DecoderThread_new == [decoder |-> Decoder_new, state |-> State_new]

\* A slip: the Stop arm resets the Decoder and leaves the State alone.
handle_msg_stop_forgets_state(self, msg, j) ==
    CASE msg.t = "Print" ->
            LET r == DecodeFile(self.decoder, msg.file, j)
                p == print(self.state, r.actions)
            IN  IF ~r.ok
                THEN [res |-> "Err", data |-> [self EXCEPT !.decoder = r.decoder]]
                ELSE [res |-> IF p.panic THEN "Panic" ELSE "Ok",
                      data |-> [decoder |-> r.decoder, state |-> p.s]]
      [] msg.t = "Stop" ->
            [res |-> "Ok",
             data |-> [self EXCEPT !.decoder = Decoder_reset(self.decoder)]]
      [] msg.t = "Play" ->
            LET p == play(self.state)
            IN  [res |-> IF p.panic THEN "Panic" ELSE "Ok",
                 data |-> [self EXCEPT !.state = p.s]]
      [] msg.t = "Pause" ->
            LET p == pause(self.state)
            IN  [res |-> IF p.panic THEN "Panic" ELSE "Ok",
                 data |-> [self EXCEPT !.state = p.s]]

\* handle_msg: res is "Ok", "Err" (a DecodeError through ?) or "Panic".
handle_msg(self, msg, j) ==
    CASE msg.t = "Print" ->
            LET r == DecodeFile(self.decoder, msg.file, j)
                p == print(self.state, r.actions)
            IN  IF ~r.ok
                THEN [res |-> "Err", data |-> [self EXCEPT !.decoder = r.decoder]]
                ELSE [res |-> IF p.panic THEN "Panic" ELSE "Ok",
                      data |-> [decoder |-> r.decoder, state |-> p.s]]
      [] msg.t = "Stop" ->
            [res |-> "Ok",
             data |-> [decoder |-> Decoder_reset(self.decoder),
                       state |-> stop(self.state)]]
      [] msg.t = "Play" ->
            LET p == play(self.state)
            IN  [res |-> IF p.panic THEN "Panic" ELSE "Ok",
                 data |-> [self EXCEPT !.state = p.s]]
      [] msg.t = "Pause" ->
            LET p == pause(self.state)
            IN  [res |-> IF p.panic THEN "Panic" ELSE "Ok",
                 data |-> [self EXCEPT !.state = p.s]]

\* next panics in printing_state_mut, or in pop_front().unwrap() on an
\* empty buffer.
next_panics(self) ==
    \/ printing_state_mut_panics(self.state)
    \/ self.state.printing_state[1] = << >>

\* The buffer next leaves behind after pop_front.
next_rest(buf) == Tail(buf)

\* A slip: pop_back in place of pop_front.
next_action_back(self) ==
    self.state.printing_state[1][Len(self.state.printing_state[1])]

\* The Action next returns.
next_action(self) == Head(self.state.printing_state[1])

\* The DecoderThread after next: the popped buffer, or stop() when that is
\* empty.
next_data(self) ==
    LET rest == next_rest(self.state.printing_state[1])
    IN  IF rest = << >>
        THEN [self EXCEPT !.state = stop(self.state)]
        ELSE [self EXCEPT !.state.printing_state = Some(rest)]

----------------------------------------------------------------------------
Init ==
    /\ data = DecoderThread_new
    /\ dpc = "run"
    /\ epc = "recv"
    /\ ctl = << >>
    /\ chan = << >>
    /\ motor = << >>
    /\ received = << >>
    /\ jobs = << >>
    /\ failed = None
    /\ ndeq = 0
    /\ pauseHead = None
    /\ resumedAt = None
    /\ ncmds = 0

\* A caller (the API layer) puts a control message on decoder_recv.
CallerSend ==
    /\ ncmds < MaxCmds
    /\ Len(ctl) < MaxCtl
    /\ dpc = "run"
    /\ \E m \in ControlComms : ctl' = Append(ctl, m)
    /\ ncmds' = ncmds + 1
    /\ UNCHANGED << data, dpc, epc, chan, motor, received, jobs, failed, ndeq,
                    pauseHead, resumedAt >>

\* A slip: a blocking send in place of the select!, so that no control
\* message is received while the Action channel is full.
RecvReady_unless_send_blocked ==
    /\ ctl # << >>
    /\ is_printing(data.state) => (Len(chan) < ChanCap \/ epc = "panicked")

\* A control message can be received: the recv arm of the select! while
\* printing, the blocking recv otherwise.
RecvReady == ctl # << >>

\* The head of the queue, when there is one.
HeadOfQueue(s) ==
    IF s.printing_state # None /\ s.printing_state[1] # << >>
    THEN Some(Head(s.printing_state[1]))
    ELSE None

\* decoder_loop receives ControlComms::Msg(m), in the select! while printing
\* and in the blocking recv otherwise: data.handle_msg(m).unwrap().
DecoderRecvMsg ==
    /\ dpc = "run"
    /\ RecvReady
    /\ Head(ctl) # Exit
    /\ LET m == Head(ctl)
           r == handle_msg(data, m, Len(jobs) + 1)
       IN  /\ data' = r.data
           /\ dpc' = IF r.res = "Ok" THEN "run" ELSE "panicked"
           /\ jobs' = IF m.t = "Print" /\ r.res = "Ok"
                      THEN Append(jobs, m.file.n) ELSE jobs
           /\ pauseHead' =
                CASE m.t = "Pause" /\ r.res = "Ok" /\ data.state.state = "Printing"
                        -> HeadOfQueue(data.state)
                  [] m.t = "Stop" -> None
                  [] OTHER -> pauseHead
           /\ resumedAt' =
                CASE m.t = "Play" /\ r.res = "Ok" /\ data.state.state = "Paused"
                        -> pauseHead
                  [] m.t = "Stop" -> None
                  [] OTHER -> resumedAt
    /\ ctl' = Tail(ctl)
    /\ UNCHANGED << epc, chan, motor, received, failed, ndeq, ncmds >>

\* A slip: Exit is taken off the channel and the loop goes on.
DecoderRecvExit_continue ==
    /\ dpc = "run"
    /\ ctl # << >>
    /\ Head(ctl) = Exit
    /\ ctl' = Tail(ctl)
    /\ UNCHANGED << data, dpc, epc, chan, motor, received, jobs, failed, ndeq,
                    pauseHead, resumedAt, ncmds >>

\* decoder_loop receives ControlComms::Exit: break.
DecoderRecvExit ==
    /\ dpc = "run"
    /\ RecvReady
    /\ Head(ctl) = Exit
    /\ ctl' = Tail(ctl)
    /\ dpc' = "exited"
    /\ UNCHANGED << data, epc, chan, motor, received, jobs, failed, ndeq,
                    pauseHead, resumedAt, ncmds >>

\* A slip: one Action more than the channel holds.
SendReady_one_more == Len(chan) <= ChanCap \/ epc = "panicked"

\* The send arm of the select! can be chosen: the channel has room, or the
\* receiving side is gone (the send then returns an error at once).
SendReady == Len(chan) < ChanCap \/ epc = "panicked"

\* The send arm of the select!: data.next() is evaluated when the arm is
\* chosen, then the Action is sent.
DecoderSend ==
    /\ dpc = "run"
    /\ is_printing(data.state)
    /\ SendReady
    /\ ~next_panics(data)
    /\ epc # "panicked"
    /\ data' = next_data(data)
    /\ chan' = Append(chan, next_action(data))
    /\ ndeq' = ndeq + 1
    /\ pauseHead' = None
    /\ UNCHANGED << dpc, epc, ctl, motor, received, jobs, failed, resumedAt,
                    ncmds >>

\* The send arm with nobody receiving: the popped Action is lost and
\* res.unwrap() panics.
DecoderSendDisconnected ==
    /\ dpc = "run"
    /\ is_printing(data.state)
    /\ SendReady
    /\ ~next_panics(data)
    /\ epc = "panicked"
    /\ data' = next_data(data)
    /\ ndeq' = ndeq + 1
    /\ dpc' = "panicked"
    /\ UNCHANGED << epc, ctl, chan, motor, received, jobs, failed, pauseHead, resumedAt,
                    ncmds >>

\* The send arm when next itself panics (an empty buffer).
DecoderNextPanics ==
    /\ dpc = "run"
    /\ is_printing(data.state)
    /\ SendReady
    /\ next_panics(data)
    /\ dpc' = "panicked"
    /\ UNCHANGED << data, epc, ctl, chan, motor, received, jobs, failed, ndeq,
                    pauseHead, resumedAt, ncmds >>

\* Executor::exec (executor.rs): the Action is forwarded to the Motor
\* Subsystem, and exec returns when the motors report its completion.
exec_forward(m, a) == Append(m, a)
exec_completed(m) == Tail(m)

\* A slip: the next Action is taken while exec still waits for the motors.
ExecutorAtRecv_or_exec == epc \in {"recv", "exec"}

\* executor_loop is at action_recv.recv().
ExecutorAtRecv == epc = "recv"

\* executor_loop receives an Action and exec forwards it to the motors.
ExecutorRecv ==
    /\ ExecutorAtRecv
    /\ chan # << >>
    /\ chan' = Tail(chan)
    /\ received' = Append(received, Head(chan))
    /\ motor' = exec_forward(motor, Head(chan))
    /\ epc' = "exec"
    /\ UNCHANGED << data, dpc, ctl, jobs, failed, ndeq, pauseHead, resumedAt, ncmds >>

\* The Motor Subsystem reports success: exec returns Ok, the loop goes on.
MotorOk ==
    /\ epc = "exec"
    /\ motor # << >>
    /\ motor' = exec_completed(motor)
    /\ epc' = "recv"
    /\ UNCHANGED << data, dpc, ctl, chan, received, jobs, failed, ndeq,
                    pauseHead, resumedAt, ncmds >>

\* The Motor Subsystem reports failure: exec(a).unwrap() panics, and the
\* receiving side of the channel is dropped with what it holds.
MotorErr ==
    /\ epc = "exec"
    /\ motor # << >>
    /\ failed = None
    /\ failed' = Some(Head(motor))
    /\ motor' = exec_completed(motor)
    /\ epc' = "panicked"
    /\ chan' = << >>
    /\ UNCHANGED << data, dpc, ctl, received, jobs, ndeq, pauseHead, resumedAt, ncmds >>

\* action_recv.recv() on an empty channel whose sender is gone: unwrap
\* panics.
ExecutorRecvDisconnected ==
    /\ ExecutorAtRecv
    /\ chan = << >>
    /\ dpc # "run"
    /\ epc' = "panicked"
    /\ UNCHANGED << data, dpc, ctl, chan, motor, received, jobs, failed, ndeq,
                    pauseHead, resumedAt, ncmds >>

Next ==
    \/ CallerSend
    \/ DecoderRecvMsg
    \/ DecoderRecvExit
    \/ DecoderSend
    \/ DecoderSendDisconnected
    \/ DecoderNextPanics
    \/ ExecutorRecv
    \/ MotorOk
    \/ MotorErr
    \/ ExecutorRecvDisconnected

Spec == Init /\ [][Next]_vars

\* The select! picks among its ready arms at random and the blocking recv
\* returns once a message is there: a control message that stays
\* receivable is received. Nothing is assumed of the Executor or the motors.
FairSpec ==
    /\ Spec
    /\ WF_vars(DecoderRecvMsg)
    /\ WF_vars(DecoderRecvExit)

\* Playback left alone: the callers send no Stop, no Pause and no Exit.
CallerSendPlayback ==
    /\ ncmds < MaxCmds
    /\ Len(ctl) < MaxCtl
    /\ dpc = "run"
    /\ \E m \in ControlComms :
        /\ m.t \in {"Print", "Play"}
        /\ ctl' = Append(ctl, m)
    /\ ncmds' = ncmds + 1
    /\ UNCHANGED << data, dpc, epc, chan, motor, received, jobs, failed, ndeq,
                    pauseHead, resumedAt >>

\* What the two workers and the motors do on their own, the motors
\* reporting success.
WorkerStep ==
    \/ DecoderRecvMsg
    \/ DecoderSend
    \/ DecoderNextPanics
    \/ ExecutorRecv
    \/ MotorOk
    \/ ExecutorRecvDisconnected

PlayNext ==
    \/ CallerSendPlayback
    \/ DecoderRecvMsg
    \/ DecoderSend
    \/ DecoderNextPanics
    \/ ExecutorRecv
    \/ MotorOk
    \/ ExecutorRecvDisconnected

PlaySpec == Init /\ [][PlayNext]_vars

----------------------------------------------------------------------------
(* Steps of decoder_loop, as seen in a pair of states. *)

\* decoder_loop takes a control message of kind t off decoder_recv.
Processes(t) ==
    /\ dpc = "run"
    /\ ctl # << >>
    /\ Head(ctl).t = t
    /\ ctl' = Tail(ctl)

\* decoder_loop puts an Action on the channel.
Sends == Len(chan') > Len(chan)

Phase == data.state.state
Pending == data.state.printing_state

\* The Actions of job j in sequence s.
OfJob(s, j) == SelectSeq(s, LAMBDA a : a[1] = j)

----------------------------------------------------------------------------
(* C1 *)

\* C1: for every job, the Actions the Executor has received from it,
\* followed by those of it still in the channel, are at every moment a
\* prefix A1..Am of the job's decoded sequence A1..AN: nothing is
\* reordered, duplicated or skipped after DecoderThread::next dequeued it.
C1_ReceivedIsPrefix ==
    \A j \in 1..Len(jobs) :
        LET got == OfJob(received \o chan, j)
        IN  /\ Len(got) <= jobs[j]
            /\ got = JobActions(j, Len(got))
            /\ OfJob(received, j) = JobActions(j, Len(OfJob(received, j)))

\* A long job was paused and resumed on the way and has been received whole.
C1_Witness ==
    /\ jobs = << LongJob >>
    /\ resumedAt # None
    /\ received = JobActions(1, LongJob)

----------------------------------------------------------------------------
(* C2 *)

\* C2: while the phase is Paused no Action is dequeued or sent and the
\* pending queue stays as it is (short of a Stop); the first Action sent
\* after the Pause, which is after the Resume, is the one that was at the
\* head of the queue when the Pause took effect; and the phase moves to
\* Stopped only by a Stop or by dequeuing the last pending Action.
C2_PauseResumeContinues ==
    [][ /\ Phase = "Paused" =>
            /\ ~Sends
            /\ ndeq' = ndeq
            /\ Phase' # "Stopped" => Pending' = Pending
        /\ (Sends /\ pauseHead # None) =>
            Some(chan'[Len(chan')]) = pauseHead
        /\ (Phase # "Stopped" /\ Phase' = "Stopped") =>
            \/ Processes("Stop")
            \/ ndeq' = ndeq + 1 /\ Len(Pending[1]) = 1
      ]_vars

\* The scenario of the spec: [A1, A2], Pause after A1 was dispatched, Resume,
\* then A2 arrives and the job is over.
C2_Witness ==
    /\ jobs = << ShortJob >>
    /\ resumedAt = Some(<< 1, 2 >>)
    /\ pauseHead = None
    /\ received = JobActions(1, ShortJob)
    /\ Phase = "Stopped"

----------------------------------------------------------------------------
(* C3 *)

\* C3: a Stop processed in any phase succeeds and leaves phase = Stopped
\* with no pending queue, and a Resume processed while Stopped fails with an
\* error the worker survives, the phase staying Stopped.
C3_StopThenResumeFails ==
    [][ /\ Processes("Stop") =>
            /\ dpc' = "run"
            /\ Phase' = "Stopped"
            /\ Pending' = None
        /\ (Processes("Play") /\ Phase = "Stopped") =>
            /\ dpc' = "run"
            /\ Phase' = "Stopped"
            /\ Pending' = None
      ]_vars

----------------------------------------------------------------------------
(* C4 *)

\* C4: the channel never holds more than ChanCap Actions, and while it
\* holds ChanCap the Decoder Worker neither dequeues nor sends.
C4_Backpressure ==
    [][ /\ Len(chan) <= ChanCap
        /\ Len(chan') <= ChanCap
        /\ Len(chan) = ChanCap => (ndeq' = ndeq /\ ~Sends)
      ]_vars

\* The channel is full, the Executor waits for the motors, and the Decoder
\* Worker is printing with Actions still pending.
C4_Witness ==
    /\ Len(chan) = ChanCap
    /\ dpc = "run"
    /\ epc = "exec"
    /\ Phase = "Printing"
    /\ Pending[1] # << >>

----------------------------------------------------------------------------
(* C5 *)

\* C5: after the Motor Subsystem failed on an Action, that Action is the
\* last one dispatched, and neither worker has crashed.
C5_MotorFailureContained ==
    failed # None =>
        /\ received[Len(received)] = failed[1]
        /\ epc # "panicked"
        /\ dpc # "panicked"

----------------------------------------------------------------------------
(* C6 *)

\* C6: at most one Action is in flight to the Motor Subsystem, and the
\* Executor Worker receives an Action only when none is.
C6_OneInFlight ==
    [][ /\ Len(motor) <= 1
        /\ Len(motor') <= 1
        /\ Len(received') > Len(received) => motor = << >>
      ]_vars

\* One Action is with the motors while the next one waits in the channel.
C6_Witness ==
    /\ Len(motor) = 1
    /\ epc = "exec"
    /\ chan # << >>

----------------------------------------------------------------------------
(* C7 *)

\* C7: a SubmitJob processed while Printing or Paused fails recoverably:
\* phase and pending queue are unchanged and the Decoder Worker stays alive.
C7_SubmitWhileBusyRecoverable ==
    [][ (Processes("Print") /\ Phase \in {"Printing", "Paused"}) =>
            /\ dpc' = "run"
            /\ Phase' = Phase
            /\ Pending' = Pending
      ]_vars

----------------------------------------------------------------------------
(* C8 *)

\* C8: a Resume or Pause processed while Stopped leaves the phase Stopped,
\* creates no queue, and the Decoder Worker loop goes on.
C8_InvalidTransitionSurvived ==
    [][ ((Processes("Play") \/ Processes("Pause")) /\ Phase = "Stopped") =>
            /\ Phase' = "Stopped"
            /\ Pending' = None
            /\ dpc' = "run"
      ]_vars

----------------------------------------------------------------------------
(* C9 *)

\* C9: when decoding a submitted job fails, the job does not start: phase
\* and queue stay as they were, no job is installed, nothing is sent, and
\* the Decoder Worker stays alive.
C9_DecodeErrorSurvived ==
    [][ (Processes("Print") /\ Head(ctl).file.bad) =>
            /\ Phase' = Phase
            /\ Pending' = Pending
            /\ jobs' = jobs
            /\ ~Sends
            /\ dpc' = "run"
      ]_vars

----------------------------------------------------------------------------
(* C10 *)

\* C10: processing Exit ends decoder_loop in any phase without a panic,
\* whatever is still pending; after that the Decoder Worker takes no
\* control message off its channel, dequeues nothing and sends nothing.
C10_ExitEndsLoop ==
    [][ /\ (dpc = "run" /\ ctl # << >> /\ Head(ctl) = Exit /\ ctl' = Tail(ctl)) =>
            dpc' = "exited"
        /\ dpc = "exited" =>
            /\ dpc' = "exited"
            /\ ctl' = ctl
            /\ data' = data
            /\ ndeq' = ndeq
            /\ ~Sends
      ]_vars

\* The loop ended while printing, with Actions pending and a later control
\* message still on the channel.
C10_Witness ==
    /\ dpc = "exited"
    /\ ctl # << >>
    /\ Phase = "Printing"
    /\ Pending[1] # << >>
----------------------------------------------------------------------------
(* C11 *)

\* C11: after the Decoder Worker ended its loop on a Shutdown, the Executor
\* Worker does not end by a crash: absent a motor failure it is never found
\* panicked.
C11_ExecutorEndsOrderly ==
    (dpc = "exited" /\ failed = None) => epc # "panicked"

----------------------------------------------------------------------------
(* C12 *)

\* C12: the pending queue is present exactly when the phase is Printing or
\* Paused, in every reachable state of the state machine.
C12_PendingIffNotStopped ==
    (Pending # None) <=> (Phase \in {"Printing", "Paused"})

\* A job ran to its end: dequeue_next emptied the queue and the machine is
\* back in Stopped without a queue.
C12_Witness ==
    /\ jobs = << ShortJob >>
    /\ ndeq = ShortJob
    /\ Phase = "Stopped"
    /\ Pending = None

----------------------------------------------------------------------------
(* C13 *)

\* C13: whenever the decoding of a job submitted in phase Stopped begins,
\* the Decoder Engine is in its initial (reset) state.
C13_DecoderFreshAtSubmit ==
    [][ (Processes("Print") /\ Phase = "Stopped") =>
            data.decoder = Decoder_new
      ]_vars
----------------------------------------------------------------------------
(* C14 *)

----------------------------------------------------------------------------
(* C15 *)

\* C15: dequeue_next hands out the head of the pending queue and removes
\* it; the phase becomes Stopped, the queue dropped, exactly when the queue
\* is empty after the pop, and is unchanged otherwise. And once a job ran to
\* its end that way, a Resume fails with an error the worker survives, the
\* phase staying Stopped.
C15_DequeueThenResumeFails ==
    [][ /\ ndeq' = ndeq + 1 =>
            /\ Sends => chan'[Len(chan')] = Head(Pending[1])
            /\ IF Tail(Pending[1]) = << >>
               THEN Phase' = "Stopped" /\ Pending' = None
               ELSE Phase' = Phase /\ Pending' = Some(Tail(Pending[1]))
        /\ ( /\ Processes("Play")
             /\ Phase = "Stopped"
             /\ jobs = << ShortJob >>
             /\ ndeq = ShortJob ) =>
            /\ dpc' = "run"
            /\ Phase' = "Stopped"
      ]_vars

----------------------------------------------------------------------------
(* C16 *)

\* C16: whenever the phase is Printing or Paused the pending queue is
\* non-empty, whatever job was submitted.
C16_PendingNonEmpty ==
    Phase \in {"Printing", "Paused"} =>
        (Pending # None /\ Pending[1] # << >>)

----------------------------------------------------------------------------
(* C19 *)

\* Applying a panic-free State method twice.
Twice(op(_), s) == op(op(s).s)

\* C19: on the State the Decoder Worker holds, stop twice is stop once; when
\* the phase is not Stopped, pause twice is pause once and play twice is
\* play once, without a panic; play while Printing and pause while Paused
\* change nothing. The same shows when decoder_loop processes such a
\* repeated message.
C19_Idempotent ==
    [][ LET s == data.state
        IN  /\ stop(stop(s)) = stop(s)
            /\ s.state # "Stopped" =>
                /\ ~pause(s).panic
                /\ ~play(s).panic
                /\ Twice(pause, s) = pause(s)
                /\ Twice(play, s) = play(s)
            /\ s.state = "Printing" => play(s) = Ok(s)
            /\ s.state = "Paused" => pause(s) = Ok(s)
            /\ ( \/ Processes("Stop") /\ s.state = "Stopped"
                 \/ Processes("Pause") /\ s.state = "Paused"
                 \/ Processes("Play") /\ s.state = "Printing" ) =>
                (data'.state = s /\ dpc' = "run")
      ]_vars

\* A paused job with queue, and a second Pause about to be processed.
C19_Witness ==
    /\ Phase = "Paused"
    /\ Pending[1] # << >>
    /\ pauseHead # None
    /\ dpc = "run"
    /\ ctl # << >>
    /\ Head(ctl).t = "Pause"

----------------------------------------------------------------------------
(* C20 *)

\* The Actions received or in the channel, in the order they were sent.
Stream == received \o chan

\* C20: a SubmitJob of a decodable file processed in phase Stopped is
\* accepted, whatever came before: the phase becomes Printing with the
\* job's Actions as the queue. And the Actions reach the Executor job after
\* job: no Action of an earlier job comes after one of a later job, and of
\* every job a prefix of its decoded sequence arrives.
C20_ReenterableInOrder ==
    [][ /\ ( /\ Processes("Print")
             /\ Phase = "Stopped"
             /\ ~Head(ctl).file.bad ) =>
            /\ dpc' = "run"
            /\ Phase' = "Printing"
            /\ Pending' = Some(JobActions(Len(jobs) + 1, Head(ctl).file.n))
            /\ jobs' = Append(jobs, Head(ctl).file.n)
        /\ LET st == Stream
           IN  \A i \in 1..Len(st) :
                /\ st[i][1] \in 1..Len(jobs)
                /\ st[i][2] \in 1..jobs[st[i][1]]
                /\ IF i > 1 /\ st[i - 1][1] = st[i][1]
                   THEN st[i][2] = st[i - 1][2] + 1
                   ELSE /\ st[i][2] = 1
                        /\ i > 1 => st[i - 1][1] < st[i][1]
      ]_vars

\* A first job was cut short by a Stop after some of its Actions arrived,
\* and Actions of a second job have arrived after them.
C20_Witness ==
    /\ Len(jobs) = 2
    /\ jobs[1] = LongJob
    /\ Len(OfJob(received, 1)) \in 1..(LongJob - 1)
    /\ OfJob(chan, 1) = << >>
    /\ Len(OfJob(received, 2)) >= 1
----------------------------------------------------------------------------
(* C17 *)

\* C17: with no Stop, Pause or Shutdown issued and the motors succeeding,
\* playback runs to its end: when the workers have nothing left to do, every
\* Action of every installed job has been received and the phase is back at
\* Stopped.
C17_PlaybackCompletes ==
    (jobs # << >> /\ ~ENABLED WorkerStep) =>
        /\ Phase = "Stopped"
        /\ \A j \in 1..Len(jobs) : OfJob(received, j) = JobActions(j, jobs[j])

----------------------------------------------------------------------------
(* C18 *)

\* Control messages the Decoder Worker has taken off decoder_recv.
Processed == ncmds - Len(ctl)

\* C18: as long as the Decoder Worker is alive it keeps servicing its
\* control channel, in every phase, the Action channel full or not: the
\* k-th control message sent is eventually taken off the channel, unless
\* the worker's loop has ended before.
C18_ControlServiced ==
    \A k \in 1..MaxCmds :
        (ncmds >= k) ~> (Processed >= k \/ dpc # "run")

\* A Pause was serviced while the Action channel was full and the Executor
\* waited for the motors.
C18_Witness ==
    /\ Phase = "Paused"
    /\ Len(chan) = ChanCap
    /\ epc = "exec"
    /\ dpc = "run"
    /\ ctl = << >>

====
